---- MODULE Spec2Model ----
(***************************************************************************)
(* netifd ubusdev.c: proxy controller for devices (plain devices, bridges  *)
(* and bridge members) that are implemented by an external device handler  *)
(* reached over ubus.  One device type binding (struct ubusdev_type), one  *)
(* device of that type (struct ubusdev_device, or struct ubusdev_bridge    *)
(* when the type has bridge_capability) and the bridge's member slots.     *)
(*                                                                         *)
(* Every C function is an operator that takes the program state as a       *)
(* record s and yields the state after the call.  An action of the state   *)
(* machine is one entry into the file from the event loop (a daemon call,  *)
(* a device event, a timer expiry, a notification, a ubus event), run to   *)
(* completion.                                                             *)
(***************************************************************************)
EXTENDS Integers, Sequences, FiniteSets, TLC

VARIABLES
    utype,      \* struct ubusdev_type: the binding
    udev,       \* struct ubusdev_device (with the embedded struct device)
    ubr,        \* the fields struct ubusdev_bridge adds
    members,    \* ubr->members: name -> struct ubusdev_bridge_member
    reg,        \* device registry: is the simple device of that name present
    dangling,   \* entities freed while their uloop timer was still queued
    opRetries,  \* timer re-invocations since udev's timer was last set by an operation
    trace,      \* what the last entry did: requests, logs, registry calls, in order
    rt,         \* how far the history so far is exactly create, create
                \* notification, reload, reload notification, free, free notification
    entries     \* entries made so far into a bridge type's code

vars == <<utype, udev, ubr, members, reg, dangling, opRetries, trace, rt,
          entries>>

----------------------------------------------------------------------------
(* Program constants and model bounds *)

UBUSDEV_MAX_RETRY_CNT == 3

\* retry_cnt is an int the code only ever increments: the model stops here
MaxRetryCnt == 8
\* the behaviours of a bridge type are followed for this many entries
MaxEntries == 6

DevName == "dev0"
MemberNames == {"eth0", "eth1"}
\* vlist_for_each_element walks the members in key order (avl_strcmp)
MemberOrder == <<"eth0", "eth1">>

STATE_SYNCHRONIZED == "SYNCHRONIZED"
STATE_PENDING_CREATE == "PENDING_CREATE"
STATE_PENDING_RELOAD == "PENDING_RELOAD"
STATE_PENDING_DISABLE == "PENDING_DISABLE"
STATE_PENDING_FREE == "PENDING_FREE"
STATE_PENDING_PREPARE == "PENDING_PREPARE"
STATE_PENDING_ADD == "PENDING_ADD"
STATE_PENDING_REMOVE == "PENDING_REMOVE"

PendingStates ==
    {STATE_PENDING_CREATE, STATE_PENDING_RELOAD, STATE_PENDING_DISABLE,
     STATE_PENDING_FREE, STATE_PENDING_PREPARE, STATE_PENDING_ADD,
     STATE_PENDING_REMOVE}

\* a NULL blob pointer is <<>>, a blob is <<value>>
NULL == <<>>

\* configurations of a plain device
PlainConfigs == {"c0", "c1"}

\* configurations of a bridge: the attributes ubusdev_bridge_reload parses
BridgeConfigs ==
    { [empty |-> TRUE,  ifname |-> NULL],
      [empty |-> FALSE, ifname |-> <<{"eth0"}>>],
      [empty |-> FALSE, ifname |-> <<{"eth0", "eth1"}>>] }

----------------------------------------------------------------------------
(* Initial values of the structures *)

\* calloc'ed struct ubusdev_device after device_init
NoDevice ==
    [ life |-> "absent",            \* absent | live | freed
      sync |-> STATE_SYNCHRONIZED,
      retry |-> FALSE,              \* is udev->retry queued
      retry_cnt |-> 0,
      present |-> FALSE,            \* dev.present
      active |-> FALSE,             \* dev.active > 0
      config |-> NULL ]             \* dev.config (plain devices)

NoBridge ==
    [ config |-> NULL,
      empty |-> FALSE,
      ifnames |-> NULL,
      ifnames_freed |-> FALSE,      \* ubr->ifnames points into a freed blob
      active |-> FALSE,
      force_active |-> FALSE,
      n_present |-> 0,
      n_failed |-> 0 ]

NoMember ==
    [ exists |-> FALSE,
      present |-> FALSE,
      hotplug |-> FALSE,
      sync |-> STATE_SYNCHRONIZED,
      retry |-> FALSE,
      retry_cnt |-> 0,
      claimed |-> FALSE ]           \* dev_usr.claimed

\* the inputs of one entry: what the transport, the registry and the system
\* answer during it
NoEnv ==
    [ refused |-> {},       \* <<method, target>> submissions the transport refuses
      noclaim |-> {},       \* members whose device_claim fails
      up_fail |-> FALSE,    \* the preserved set_state(true) fails
      garbage |-> {},       \* what a read through a freed ifnames pointer yields
      lookup_fail |-> FALSE,    \* ubus_lookup_id fails
      subscribe_fail |-> FALSE ] \* ubus_subscribe fails

\* the program state at the start of an entry
Cur(env) ==
    [ utype |-> utype, udev |-> udev, ubr |-> ubr, members |-> members,
      reg |-> reg, dangling |-> dangling, opRetries |-> opRetries,
      trace |-> <<>>, env |-> env, ret |-> 0,
      change |-> "NO_CHANGE" ]

AllAccepted(s) ==
    \A i \in DOMAIN s.trace : s.trace[i].ev = "invoke" => s.trace[i].ok

Requested(s, method) ==
    \E i \in DOMAIN s.trace :
        s.trace[i].ev = "invoke" /\ s.trace[i].a = method /\ s.trace[i].ok

\* the stage of the round trip after entry `tag` ended in s
RtNext(tag, s) ==
    IF ~utype.subscribed \/ ~AllAccepted(s) THEN "off"
    ELSE CASE rt = "start" /\ tag = "create" /\ s.udev.life = "live" -> "created"
           [] rt = "created" /\ tag = "notify_create" -> "create_confirmed"
           [] rt = "create_confirmed" /\ tag = "reload"
                /\ Requested(s, "reload") -> "reloading"
           [] rt = "reloading" /\ tag = "notify_reload" -> "reload_confirmed"
           [] rt = "reload_confirmed" /\ tag = "free"
                /\ Requested(s, "free") -> "freeing"
           [] rt = "freeing" /\ tag = "notify_free" -> "done"
           [] OTHER -> "off"

Commit(tag, s) ==
    /\ entries < MaxEntries
    /\ rt' = RtNext(tag, s)
    /\ utype' = s.utype
    /\ udev' = s.udev
    /\ ubr' = s.ubr
    /\ members' = s.members
    /\ reg' = s.reg
    /\ dangling' = s.dangling
    /\ opRetries' = s.opRetries
    /\ trace' = s.trace
    /\ s.udev.retry_cnt <= MaxRetryCnt
    /\ entries' = IF utype.bridge_capability THEN entries + 1 ELSE 0

----------------------------------------------------------------------------
(* Collaborators outside ubusdev.c *)

Ev(s, ev, a, b, ok) ==
    [s EXCEPT !.trace = Append(@,
        [ev |-> ev, a |-> a, b |-> b, ok |-> ok, sub |-> s.utype.subscribed])]

\* netifd_ubusdev_invoke_async: submit method for target; the transport
\* accepts or refuses the submission
InvokeOk(s, method, target) == <<method, target>> \notin s.env.refused

netifd_ubusdev_invoke_async(s, method, target) ==
    Ev(s, "invoke", method, target, InvokeOk(s, method, target))

netifd_log_message(s, kind, method, name) == Ev(s, kind, method, name, TRUE)

\* device_set_present on the managed device
device_set_present(s, state) == [s EXCEPT !.udev.present = state]

\* device_claim / device_release on a member's device_user
DeviceClaimOk(s, m) == s.members[m].claimed \/ m \notin s.env.noclaim

device_claim(s, m) ==
    IF s.members[m].claimed THEN s
    ELSE IF m \in s.env.noclaim THEN Ev(s, "claim", "", m, FALSE)
    ELSE Ev([s EXCEPT !.members[m].claimed = TRUE], "claim", "", m, TRUE)

device_release(s, m) ==
    Ev([s EXCEPT !.members[m].claimed = FALSE], "release", "", m,
       s.members[m].claimed)

device_broadcast_event(s, event) == Ev(s, "broadcast", event, DevName, TRUE)

\* the set_state callback of the device core that _ubusdev_bridge_create keeps
preserved_set_state(s, up) ==
    Ev(s, "set_state", IF up THEN "up" ELSE "down", DevName,
       ~(up /\ s.env.up_fail))

----------------------------------------------------------------------------
(* ubusdev.c *)

ubusdev_invocation_error(s, method, devname) ==
    netifd_log_message(s, "invocation_error", method, devname)

ubusdev_check_subscribed(s, action) ==
    IF ~s.utype.subscribed
    THEN netifd_log_message(s, "not_subscribed", action, DevName)
    ELSE s

ubusdev_bridge_member_set_sync(s, m, status) ==
    [s EXCEPT !.members[m].sync = status,
              !.members[m].retry =
                  IF status = STATE_SYNCHRONIZED THEN FALSE ELSE @]

ubusdev_bridge_member_set_timeout(s, m, status) ==
    [ubusdev_bridge_member_set_sync(s, m, status)
        EXCEPT !.members[m].retry = TRUE]

\* the error: label without its ubr->n_present--
EnableMemberErrorKeepsCount(s, m) ==
    [s EXCEPT !.ubr.n_failed = @ + 1,
              !.members[m].present = FALSE,
              !.members[m].sync = STATE_PENDING_ADD]

\* the error: label of ubusdev_bridge_enable_member
EnableMemberError(s, m) ==
    [s EXCEPT !.ubr.n_failed = @ + 1,
              !.members[m].present = FALSE,
              !.members[m].sync = STATE_PENDING_ADD,
              !.ubr.n_present = @ - 1]

ubusdev_bridge_enable_member(s, m) ==
    IF ~s.members[m].present THEN s
    ELSE LET s1 == device_claim(s, m) IN
    IF ~DeviceClaimOk(s, m) THEN EnableMemberError(s1, m)
    ELSE IF ~s1.udev.present \/ s1.udev.sync # STATE_SYNCHRONIZED
    THEN EnableMemberError(s1, m)
    ELSE LET s2 == netifd_ubusdev_invoke_async(s1, "add", m)
             s3 == ubusdev_bridge_member_set_timeout(s2, m, STATE_PENDING_ADD)
         IN  IF InvokeOk(s, "add", m) THEN s3
             ELSE EnableMemberError(ubusdev_invocation_error(s3, "add", m), m)

RetryEnableStep(s, m) ==
    LET cur == s.members[m] IN
    IF ~cur.exists \/ cur.present \/ ~s.reg[m]
       \/ cur.sync = STATE_SYNCHRONIZED
    THEN s
    ELSE ubusdev_bridge_enable_member(
            [s EXCEPT !.members[m].present = TRUE, !.ubr.n_present = @ + 1], m)

RECURSIVE RetryEnableLoop(_, _)
RetryEnableLoop(s, i) ==
    IF i > Len(MemberOrder) THEN s
    ELSE RetryEnableLoop(RetryEnableStep(s, MemberOrder[i]), i + 1)

ubusdev_bridge_retry_enable_members(s) ==
    RetryEnableLoop([s EXCEPT !.ubr.n_failed = 0], 1)

\* ubusdev_set_sync without its uloop_timeout_cancel
ubusdev_set_sync_keeps_timer(s, status) ==
    LET s1 == [s EXCEPT !.udev.sync = status]
    IN  IF s1.utype.bridge_capability /\ s1.ubr.n_failed # 0
        THEN ubusdev_bridge_retry_enable_members(s1)
        ELSE s1

ubusdev_set_sync(s, status) ==
    LET s1 == [s EXCEPT !.udev.sync = status,
                        !.udev.retry =
                            IF status = STATE_SYNCHRONIZED THEN FALSE ELSE @]
    IN  IF s1.utype.bridge_capability /\ s1.ubr.n_failed # 0
        THEN ubusdev_bridge_retry_enable_members(s1)
        ELSE s1

ubusdev_set_timeout(s, state) ==
    [ubusdev_set_sync(s, state) EXCEPT !.udev.retry = TRUE, !.opRetries = 0]

ubusdev_bridge_disable_interface(s) ==
    LET s1 == netifd_ubusdev_invoke_async(s, "free", DevName) IN
    IF InvokeOk(s, "free", DevName)
    THEN [ubusdev_set_timeout(s1, STATE_PENDING_DISABLE) EXCEPT !.ret = 0]
    ELSE [ubusdev_invocation_error(s1, "free", DevName) EXCEPT !.ret = 1]

ubusdev_bridge_disable_member(s, m) ==
    IF ~s.members[m].present THEN s
    ELSE LET s1 == netifd_ubusdev_invoke_async(s, "remove", m) IN
         IF InvokeOk(s, "remove", m)
         THEN ubusdev_bridge_member_set_timeout(s1, m, STATE_PENDING_REMOVE)
         ELSE ubusdev_invocation_error(s1, "remove", m)

RECURSIVE DisableMembersLoop(_, _)
DisableMembersLoop(s, i) ==
    IF i > Len(MemberOrder) THEN s
    ELSE DisableMembersLoop(
            IF s.members[MemberOrder[i]].exists
            THEN ubusdev_bridge_disable_member(s, MemberOrder[i]) ELSE s,
            i + 1)

ubusdev_bridge_set_down_free_first(s) ==
    LET s1 == preserved_set_state(s, FALSE)
        s2 == ubusdev_bridge_disable_interface(s1)
        s3 == DisableMembersLoop(s2, 1)
    IN  [s3 EXCEPT !.ret = 0]

ubusdev_bridge_set_down(s) ==
    LET s1 == preserved_set_state(s, FALSE)
        s2 == DisableMembersLoop(s1, 1)
        s3 == ubusdev_bridge_disable_interface(s2)
    IN  [s3 EXCEPT !.ret = 0]

RECURSIVE EnableMembersLoop(_, _)
EnableMembersLoop(s, i) ==
    IF i > Len(MemberOrder) THEN s
    ELSE EnableMembersLoop(
            IF s.members[MemberOrder[i]].exists
            THEN ubusdev_bridge_enable_member(s, MemberOrder[i]) ELSE s,
            i + 1)

ubusdev_bridge_set_up(s) ==
    IF s.ubr.n_present = 0 /\ ~s.ubr.force_active
    THEN [s EXCEPT !.ret = -1]
    ELSE LET s1 == EnableMembersLoop([s EXCEPT !.ubr.n_failed = 0], 1) IN
         IF ~s1.ubr.force_active /\ s1.ubr.n_present = 0
         THEN [device_set_present(ubusdev_bridge_disable_interface(s1), FALSE)
                  EXCEPT !.ret = -1]
         ELSE [s1 EXCEPT !.ret = 0]

ubusdev_bridge_set_state(s, up) ==
    IF ~s.utype.bridge_capability THEN [s EXCEPT !.ret = -1]
    ELSE IF up THEN ubusdev_bridge_set_up(s)
    ELSE ubusdev_bridge_set_down(s)

ubusdev_bridge_remove_member(s, m) ==
    IF ~s.members[m].present THEN s
    ELSE LET s1 == IF s.udev.active
                   THEN ubusdev_bridge_disable_member(s, m) ELSE s
             s2 == [s1 EXCEPT !.members[m].present = FALSE,
                              !.ubr.n_present = @ - 1]
         IN  IF s2.ubr.n_present = 0
             THEN device_set_present(s2, FALSE) ELSE s2

\* struct device_user.hotplug of a member: allocated zeroed by
\* ubusdev_bridge_create_member and written nowhere in the file
dev_usr_hotplug(s, m) == FALSE

\* device_remove_user, the presence toggle and free(ubm)
ubusdev_bridge_free_member(s, m) ==
    LET s1 == ubusdev_bridge_remove_member(s, m)
        s2 == IF s1.members[m].claimed THEN device_release(s1, m) ELSE s1
    IN  [s2 EXCEPT !.members[m] = NoMember,
                   !.dangling = IF s2.members[m].retry THEN @ \cup {m} ELSE @]

\* vlist_delete: the update callback with node_old only
vlist_delete(s, m) == ubusdev_bridge_free_member(s, m)

ubusdev_bridge_member_cb(s, m, event) ==
    IF event = "DEV_EVENT_ADD"
    THEN LET s1 == [s EXCEPT !.members[m].present = TRUE,
                             !.ubr.n_present = @ + 1]
         IN  IF s1.ubr.n_present = 1
             THEN ubusdev_set_timeout(
                      netifd_ubusdev_invoke_async(s1, "create", DevName),
                      STATE_PENDING_CREATE)
             ELSE ubusdev_bridge_enable_member(s1, m)
    ELSE IF event = "DEV_EVENT_REMOVE"
    THEN IF dev_usr_hotplug(s, m) THEN vlist_delete(s, m)
         ELSE IF s.members[m].present
         THEN ubusdev_bridge_remove_member(s, m)
         ELSE s
    ELSE s

\* device_add_user: a present device announces itself to the new user at once
device_add_user(s, m) ==
    IF s.reg[m] THEN ubusdev_bridge_member_cb(s, m, "DEV_EVENT_ADD") ELSE s

\* vlist_add and the update callback: an existing slot is kept and the new
\* one freed; a new slot is bound to its device
\* ubusdev_bridge_member_update letting the new slot replace the old one
ubusdev_bridge_member_update_replaces(s, m, new) ==
    device_add_user([s EXCEPT !.members[m] = new], m)

ubusdev_bridge_member_update(s, m, new) ==
    IF s.members[m].exists THEN s
    ELSE device_add_user([s EXCEPT !.members[m] = new], m)

ubusdev_bridge_create_member(s, m, hotplug) ==
    ubusdev_bridge_member_update(s, m,
        [NoMember EXCEPT !.exists = TRUE, !.hotplug = hotplug,
                         !.sync = STATE_PENDING_ADD])

\* device_get(name, 1) creates the simple device when it is missing
ubusdev_bridge_add_member(s, m) == ubusdev_bridge_create_member(s, m, FALSE)

ubusdev_bridge_member_timeout_cb(s, m) ==
    LET s0 == [s EXCEPT !.members[m].retry = FALSE,
                        !.members[m].retry_cnt = @ + 1]
    IN  IF s.members[m].retry_cnt = UBUSDEV_MAX_RETRY_CNT
        THEN device_release(netifd_log_message(s0, "giveup", "", m), m)
        ELSE IF s0.members[m].sync = STATE_PENDING_ADD
        THEN ubusdev_bridge_retry_enable_members(s0)
        ELSE IF s0.members[m].sync = STATE_PENDING_REMOVE
        THEN LET s1 == netifd_ubusdev_invoke_async(s0, "remove", m) IN
             IF InvokeOk(s0, "remove", m)
             THEN [s1 EXCEPT !.members[m].retry = TRUE]
             ELSE ubusdev_invocation_error(s1, "remove", m)
        ELSE s0

ubusdev_hotplug_add(s, m) ==
    IF ~s.utype.bridge_capability THEN [s EXCEPT !.ret = 1]
    ELSE IF ~s.utype.subscribed
    THEN [ubusdev_check_subscribed(s, "add") EXCEPT !.ret = 1]
    ELSE [ubusdev_bridge_create_member(s, m, TRUE) EXCEPT !.ret = 0]

ubusdev_hotplug_remove(s, m) ==
    IF ~s.utype.bridge_capability THEN [s EXCEPT !.ret = 1]
    ELSE IF ~s.utype.subscribed
    THEN [ubusdev_check_subscribed(s, "remove") EXCEPT !.ret = 1]
    ELSE IF ~s.members[m].exists THEN [s EXCEPT !.ret = 1]
    ELSE [vlist_delete(s, m) EXCEPT !.ret = 0]

ubusdev_hotplug_prepare(s) ==
    IF ~s.utype.bridge_capability THEN [s EXCEPT !.ret = 1]
    ELSE LET s1 == netifd_ubusdev_invoke_async(s, "prepare", DevName) IN
         IF InvokeOk(s, "prepare", DevName)
         THEN [ubusdev_set_timeout(s1, STATE_PENDING_PREPARE) EXCEPT !.ret = 0]
         ELSE [ubusdev_invocation_error(s1, "prepare", DevName)
                  EXCEPT !.ret = 1]

\* ubr->ifnames as _ubusdev_bridge_config_init reads it: a pointer into a
\* freed blob yields whatever the memory holds by then
IfnamesRead(s) ==
    IF s.ubr.ifnames_freed THEN <<s.env.garbage>> ELSE s.ubr.ifnames

ubusdev_bridge_reload(s, config) ==
    LET s1 == IF config.empty
              THEN [s EXCEPT !.ubr.empty = TRUE]
              ELSE [s EXCEPT !.ubr.ifnames = config.ifname,
                             !.ubr.ifnames_freed = FALSE]
    IN  IF s1.ubr.config # NULL
        THEN LET s2 == netifd_ubusdev_invoke_async(s1, "reload", DevName) IN
             IF ~InvokeOk(s, "reload", DevName)
             THEN \* free(config): ifnames set from it now points into it
                  [s2 EXCEPT !.ubr.ifnames_freed =
                                 IF config.empty THEN @ ELSE config.ifname # NULL,
                             !.change = "NO_CHANGE"]
             ELSE LET s3 == ubusdev_set_timeout(s2, STATE_PENDING_RELOAD) IN
                  \* free(ubr->config): ifnames kept from it now points into it
                  [s3 EXCEPT !.ubr.ifnames_freed =
                                 IF config.empty THEN s3.ubr.ifnames # NULL ELSE @,
                             !.ubr.config = <<config>>,
                             !.change = IF <<config>> # s.ubr.config
                                        THEN "RESTART" ELSE "APPLIED"]
        ELSE [s1 EXCEPT !.ubr.config = <<config>>, !.change = "APPLIED"]

_ubusdev_reload(s, config) ==
    IF <<config>> = s.udev.config THEN [s EXCEPT !.change = "NO_CHANGE"]
    ELSE LET s1 == device_set_present(s, FALSE)
             s2 == netifd_ubusdev_invoke_async(s1, "reload", DevName)
         IN  IF ~InvokeOk(s, "reload", DevName)
             THEN [s2 EXCEPT !.change = "NO_CHANGE"]
             ELSE [ubusdev_set_timeout(s2, STATE_PENDING_RELOAD)
                      EXCEPT !.change = "RESTART"]

\* ubusdev_reload without its ubusdev_check_subscribed
ubusdev_reload_unguarded(s, config) ==
    IF s.utype.bridge_capability THEN ubusdev_bridge_reload(s, config)
    ELSE _ubusdev_reload(s, config)

ubusdev_reload(s, config) ==
    IF ~s.utype.subscribed
    THEN [ubusdev_check_subscribed(s, "reload") EXCEPT !.change = "NO_CHANGE"]
    ELSE IF s.utype.bridge_capability THEN ubusdev_bridge_reload(s, config)
    ELSE _ubusdev_reload(s, config)

\* the method and target a device timer re-invokes in each sync state
TimeoutMethod(sync, bridge) ==
    CASE sync = STATE_PENDING_CREATE -> "create"
      [] sync = STATE_PENDING_RELOAD -> "reload"
      [] sync = STATE_PENDING_FREE -> "free"
      [] sync = STATE_PENDING_DISABLE /\ bridge -> "free"
      [] sync = STATE_PENDING_PREPARE /\ bridge -> "prepare"
      [] OTHER -> "none"

ubusdev_timeout_cb(s) ==
    LET s0 == [s EXCEPT !.udev.retry = FALSE, !.udev.retry_cnt = @ + 1]
        method == TimeoutMethod(s0.udev.sync, FALSE)
    IN  IF s.udev.retry_cnt = UBUSDEV_MAX_RETRY_CNT
        THEN netifd_log_message(s0, "giveup", "", DevName)
        ELSE IF method = "none" THEN s0
        ELSE LET s1 == netifd_ubusdev_invoke_async(s0, method, DevName)
                 s2 == IF InvokeOk(s0, method, DevName) THEN s1
                       ELSE ubusdev_invocation_error(s1, method, DevName)
             IN  [s2 EXCEPT !.udev.retry = TRUE, !.opRetries = @ + 1]

\* ubusdev_bridge_timeout_cb with the counter incremented before the test
ubusdev_bridge_timeout_cb_preincrement(s) ==
    LET s0 == [s EXCEPT !.udev.retry = FALSE, !.udev.retry_cnt = @ + 1]
        method == TimeoutMethod(s0.udev.sync, TRUE)
    IN  IF s0.udev.retry_cnt = UBUSDEV_MAX_RETRY_CNT
        THEN netifd_log_message(s0, "giveup", "", DevName)
        ELSE IF method = "none" THEN s0
        ELSE LET s1 == netifd_ubusdev_invoke_async(s0, method, DevName) IN
             IF InvokeOk(s0, method, DevName)
             THEN [s1 EXCEPT !.udev.retry = TRUE, !.opRetries = @ + 1]
             ELSE [ubusdev_invocation_error(s1, method, DevName)
                      EXCEPT !.opRetries = @ + 1]

ubusdev_bridge_timeout_cb(s) ==
    LET s0 == [s EXCEPT !.udev.retry = FALSE, !.udev.retry_cnt = @ + 1]
        method == TimeoutMethod(s0.udev.sync, TRUE)
    IN  IF s.udev.retry_cnt = UBUSDEV_MAX_RETRY_CNT
        THEN netifd_log_message(s0, "giveup", "", DevName)
        ELSE IF method = "none" THEN s0
        ELSE LET s1 == netifd_ubusdev_invoke_async(s0, method, DevName) IN
             IF InvokeOk(s0, method, DevName)
             THEN [s1 EXCEPT !.udev.retry = TRUE, !.opRetries = @ + 1]
             ELSE [ubusdev_invocation_error(s1, method, DevName)
                      EXCEPT !.opRetries = @ + 1]

\* device_init puts the device into the registry; the daemon keeps the
\* configuration of a created device in dev->config
_ubusdev_create(s, config) ==
    LET s1 == netifd_ubusdev_invoke_async(s, "create", DevName) IN
    IF ~InvokeOk(s, "create", DevName)
    THEN ubusdev_invocation_error(s1, "create", DevName)
    ELSE ubusdev_set_timeout(
            [s1 EXCEPT !.udev = [NoDevice EXCEPT !.life = "live",
                                                 !.config = <<config>>]],
            STATE_PENDING_CREATE)

_ubusdev_bridge_create(s, config) ==
    ubusdev_bridge_reload(
        [s EXCEPT !.udev = [NoDevice EXCEPT !.life = "live"],
                  !.ubr = NoBridge,
                  !.members = [m \in MemberNames |-> NoMember]],
        config)

ubusdev_create(s, config) ==
    IF ~s.utype.subscribed THEN ubusdev_check_subscribed(s, "create")
    ELSE IF s.utype.bridge_capability THEN _ubusdev_bridge_create(s, config)
    ELSE _ubusdev_create(s, config)

ubusdev_free(s) ==
    IF ~s.utype.subscribed THEN ubusdev_check_subscribed(s, "free")
    ELSE LET s1 == netifd_ubusdev_invoke_async(s, "free", DevName)
             s2 == IF InvokeOk(s, "free", DevName)
                   THEN ubusdev_set_timeout(s1, STATE_PENDING_FREE) ELSE s1
         IN  ubusdev_invocation_error(s2, "free", DevName)

RECURSIVE AddMembersLoop(_, _, _)
AddMembersLoop(s, names, i) ==
    IF i > Len(MemberOrder) THEN s
    ELSE AddMembersLoop(
            IF MemberOrder[i] \in names
            THEN ubusdev_bridge_add_member(s, MemberOrder[i]) ELSE s,
            names, i + 1)

\* vlist_flush: the slots not added again since vlist_update are removed
RECURSIVE FlushLoop(_, _, _)
FlushLoop(s, keep, i) ==
    IF i > Len(MemberOrder) THEN s
    ELSE FlushLoop(
            IF s.members[MemberOrder[i]].exists /\ MemberOrder[i] \notin keep
            THEN ubusdev_bridge_free_member(s, MemberOrder[i]) ELSE s,
            keep, i + 1)

vlist_flush(s, keep) == FlushLoop(s, keep, 1)

vlist_flush_all(s) == FlushLoop(s, {}, 1)

\* _ubusdev_bridge_config_init without the immediate create of an empty bridge
_ubusdev_bridge_config_init_no_create(s) ==
    LET s1 == [s EXCEPT !.ubr.force_active = IF s.ubr.empty THEN TRUE ELSE @,
                        !.ubr.n_failed = 0]
        ifnames == IfnamesRead(s1)
    IN  IF ifnames # NULL
        THEN vlist_flush(AddMembersLoop(s1, ifnames[1], 1), ifnames[1])
        ELSE vlist_flush(s1, {})

_ubusdev_bridge_config_init(s) ==
    LET s1 == [s EXCEPT !.ubr.force_active = IF s.ubr.empty THEN TRUE ELSE @,
                        !.ubr.n_failed = 0]
        ifnames == IfnamesRead(s1)
    IN  IF ifnames # NULL
        THEN vlist_flush(AddMembersLoop(s1, ifnames[1], 1), ifnames[1])
        ELSE IF s1.ubr.empty
        THEN LET s2 == netifd_ubusdev_invoke_async(s1, "create", DevName) IN
             IF ~InvokeOk(s, "create", DevName) THEN s2
             ELSE vlist_flush(
                     ubusdev_set_timeout(s2, STATE_PENDING_CREATE), {})
        ELSE vlist_flush(s1, {})

ubusdev_config_init(s) ==
    IF ~s.utype.subscribed THEN ubusdev_check_subscribed(s, "config_init")
    ELSE IF s.utype.bridge_capability THEN _ubusdev_bridge_config_init(s)
    ELSE s

_ubusdev_bridge_handle_create_notification(s) ==
    IF s.udev.sync # STATE_PENDING_CREATE THEN [s EXCEPT !.ret = 0]
    ELSE LET s1 == ubusdev_set_sync([s EXCEPT !.ubr.active = TRUE],
                                    STATE_SYNCHRONIZED)
             s2 == preserved_set_state(s1, TRUE)
             s3 == IF s.env.up_fail THEN ubusdev_bridge_set_down(s2) ELSE s2
         IN  [device_set_present(s3, TRUE)
                 EXCEPT !.ret = IF s.env.up_fail THEN -1 ELSE 0]

_ubusdev_handle_create_notification(s) ==
    IF s.udev.sync # STATE_PENDING_CREATE THEN [s EXCEPT !.ret = 0]
    ELSE [device_set_present(ubusdev_set_sync(s, STATE_SYNCHRONIZED), TRUE)
             EXCEPT !.ret = 0]

\* device_get(name, 0): the registry holds the device from device_init on;
\* nothing in the file takes it out again
device_get(s) == s.udev.life # "absent"

ubusdev_handle_create_notification(s) ==
    IF ~device_get(s) THEN [s EXCEPT !.ret = 0]
    ELSE IF s.utype.bridge_capability
    THEN _ubusdev_bridge_handle_create_notification(s)
    ELSE _ubusdev_handle_create_notification(s)

ubusdev_handle_reload_notification(s) ==
    IF ~device_get(s) THEN [s EXCEPT !.ret = 1]
    ELSE IF s.udev.sync = STATE_PENDING_RELOAD
    THEN [device_set_present(ubusdev_set_sync(s, STATE_SYNCHRONIZED), TRUE)
             EXCEPT !.ret = 0]
    ELSE [s EXCEPT !.ret = 0]

\* free(ubr) with its timer still queued leaves the timer dangling
BridgeDestroy(s) ==
    LET s1 == vlist_flush_all(s) IN
    [s1 EXCEPT !.udev = [NoDevice EXCEPT !.life = "freed"],
               !.ubr = NoBridge,
               !.dangling = IF s1.udev.retry THEN @ \cup {DevName} ELSE @]

ubusdev_handle_free_notification(s) ==
    IF ~device_get(s) THEN [s EXCEPT !.ret = 1]
    ELSE IF s.utype.bridge_capability
    THEN IF s.udev.sync = STATE_PENDING_DISABLE
         THEN [ubusdev_set_sync([s EXCEPT !.ubr.active = FALSE],
                                STATE_SYNCHRONIZED) EXCEPT !.ret = 0]
         ELSE [BridgeDestroy(s) EXCEPT !.ret = 0]
    ELSE [s EXCEPT !.ret = 0]

ubusdev_handle_hotplug_prepare_notification(s) ==
    IF ~device_get(s) THEN [s EXCEPT !.ret = 1]
    ELSE IF ~s.utype.bridge_capability THEN [s EXCEPT !.ret = 1]
    ELSE IF s.udev.sync # STATE_PENDING_PREPARE THEN [s EXCEPT !.ret = 0]
    ELSE LET s1 == ubusdev_set_sync(s, STATE_SYNCHRONIZED) IN
         [device_set_present([s1 EXCEPT !.ubr.force_active = TRUE], TRUE)
             EXCEPT !.ret = 0]

ubusdev_handle_hotplug_add_notification(s, m) ==
    IF ~device_get(s) THEN [s EXCEPT !.ret = 1]
    ELSE IF ~s.members[m].exists
    THEN [ubusdev_bridge_create_member(s, m, TRUE) EXCEPT !.ret = 0]
    ELSE IF s.members[m].sync # STATE_PENDING_ADD THEN [s EXCEPT !.ret = 0]
    ELSE [device_broadcast_event(
              ubusdev_bridge_member_set_sync(s, m, STATE_SYNCHRONIZED),
              "DEV_EVENT_TOPO_CHANGE") EXCEPT !.ret = 0]

ubusdev_handle_hotplug_remove_notification(s, m) ==
    IF ~device_get(s) THEN [s EXCEPT !.ret = 1]
    ELSE IF ~s.members[m].exists THEN [s EXCEPT !.ret = 1]
    ELSE IF s.members[m].sync # STATE_PENDING_REMOVE THEN [s EXCEPT !.ret = 0]
    ELSE [device_broadcast_event(
              device_release(
                  ubusdev_bridge_member_set_sync(s, m, STATE_SYNCHRONIZED), m),
              "DEV_EVENT_TOPO_CHANGE") EXCEPT !.ret = 0]

\* ubusdev_lookup_id and ubus_subscribe
ExtDevHandlerName == "handler"
ObjectPaths == {"handler", "other"}

ubusdev_subscribe(s) ==
    IF s.env.lookup_fail THEN [s EXCEPT !.utype.subscribed = FALSE]
    ELSE IF s.env.subscribe_fail
    THEN [s EXCEPT !.utype.ubus_peer_id = 1, !.utype.subscribed = FALSE,
                   !.utype.obj_wait = TRUE]
    ELSE netifd_log_message(
            [s EXCEPT !.utype.ubus_peer_id = 1, !.utype.subscribed = TRUE],
            "subscribed", "", ExtDevHandlerName)

\* ubusdev_wait_ev_cb without its comparison of the path
ubusdev_wait_ev_cb_any_path(s, path) == ubusdev_subscribe(s)

ubusdev_wait_ev_cb(s, path) ==
    IF path # ExtDevHandlerName THEN s ELSE ubusdev_subscribe(s)

ubusdev_ext_handler_remove_cb(s) ==
    [s EXCEPT !.utype.ubus_peer_id = 0, !.utype.subscribed = FALSE,
              !.utype.obj_wait = TRUE]

\* the binding as ubusdev_add_devtype leaves it
ubusdev_add_devtype(bridge_capability, env) ==
    ubusdev_subscribe(
        [ utype |-> [bridge_capability |-> bridge_capability,
                     subscribed |-> FALSE, ubus_peer_id |-> 0,
                     obj_wait |-> FALSE],
          trace |-> <<>>,
          env |-> env ]).utype

----------------------------------------------------------------------------
(* The state machine: one action per entry from the event loop *)

AllKeys ==
    { <<method, DevName>> : method \in {"create", "reload", "free", "prepare"} }
    \cup { <<method, m>> : method \in {"add", "remove"}, m \in MemberNames }

\* the answers an entry can depend on: the submissions and device claims it
\* makes when every answer is yes, when every answer is no, and in between
Probes(ups) ==
    { [NoEnv EXCEPT !.refused = r, !.noclaim = c, !.up_fail = u] :
        r \in {{}, AllKeys}, c \in {{}, MemberNames}, u \in ups }

Asked(tr, ev) ==
    { <<tr[i].a, tr[i].b>> : i \in { j \in DOMAIN tr : tr[j].ev = ev } }

\* the inputs of entry H: every combination of answers to what it asks
Envs(H(_), ups, garb) ==
    LET quiet == \A g \in garb :
                    LET tr == H(Cur([NoEnv EXCEPT !.garbage = g])).trace IN
                    \A i \in DOMAIN tr :
                        tr[i].ev \notin {"invoke", "claim", "set_state"}
        probes == IF quiet THEN {} ELSE Probes(ups)
        keys == UNION { Asked(H(Cur(p)).trace, "invoke") : p \in probes }
        claimers == UNION { { k[2] : k \in Asked(H(Cur(p)).trace, "claim") } :
                            p \in probes }
    IN  { [NoEnv EXCEPT !.refused = r, !.noclaim = c, !.up_fail = u,
                        !.garbage = g] :
            r \in SUBSET keys, c \in SUBSET claimers,
            u \in IF quiet THEN {FALSE} ELSE ups, g \in garb }

Live == udev.life = "live"
Bridge == utype.bridge_capability

Init ==
    /\ \E b \in BOOLEAN, lf \in BOOLEAN, sf \in BOOLEAN :
          utype = ubusdev_add_devtype(b,
                      [NoEnv EXCEPT !.lookup_fail = lf, !.subscribe_fail = sf])
    /\ udev = NoDevice
    /\ ubr = NoBridge
    /\ members = [m \in MemberNames |-> NoMember]
    /\ reg = [m \in MemberNames |-> FALSE]
    /\ dangling = {}
    /\ opRetries = 0
    /\ trace = <<>>
    /\ rt = "start"
    /\ entries = 0

\* an entry H, tagged, with every input it can depend on
Entry(tag, H(_), ups, garb) ==
    /\ entries < MaxEntries
    /\ \E env \in Envs(H, ups, garb) : Commit(tag, H(Cur(env)))

\* the daemon creates the device
Create ==
    /\ udev.life = "absent"
    /\ \E config \in IF Bridge THEN BridgeConfigs ELSE PlainConfigs :
          Entry("create", LAMBDA s : ubusdev_create(s, config), {FALSE}, {{}})

\* the daemon applies a configuration; it stores the configuration of a
\* plain device in dev->config unless the reload reports no change
DaemonReload(s, config) ==
    LET s1 == ubusdev_reload(s, config) IN
    IF ~s.utype.bridge_capability /\ s1.change # "NO_CHANGE"
    THEN [s1 EXCEPT !.udev.config = <<config>>] ELSE s1

Reload ==
    /\ Live
    /\ \E config \in IF Bridge THEN BridgeConfigs ELSE PlainConfigs :
          Entry("reload", LAMBDA s : DaemonReload(s, config), {FALSE}, {{}})

Free ==
    /\ Live
    /\ Entry("free", ubusdev_free, {FALSE}, {{}})

ConfigInit ==
    /\ Live
    /\ Entry("config_init", ubusdev_config_init, {FALSE},
             IF ubr.ifnames_freed THEN SUBSET MemberNames ELSE {{}})

\* device_claim of the bridge device: dev->active counts the claim and
\* dev->set_state(dev, true) runs; a failure takes the claim back
DaemonSetUp(s) ==
    LET s1 == ubusdev_bridge_set_state([s EXCEPT !.udev.active = TRUE], TRUE)
    IN  [s1 EXCEPT !.udev.active = (s1.ret = 0)]

SetStateUp ==
    /\ Live /\ Bridge /\ udev.present /\ ~udev.active
    /\ Entry("set_up", DaemonSetUp, {FALSE}, {{}})

\* device_release of the bridge device: dev->set_state(dev, false)
DaemonSetDown(s) ==
    ubusdev_bridge_set_state([s EXCEPT !.udev.active = FALSE], FALSE)

SetStateDown ==
    /\ Live /\ Bridge /\ udev.active
    /\ Entry("set_down", DaemonSetDown, {FALSE}, {{}})

HotplugPrepare ==
    /\ Live /\ Bridge
    /\ Entry("prepare", ubusdev_hotplug_prepare, {FALSE}, {{}})

HotplugAdd ==
    /\ Live /\ Bridge
    /\ \E m \in MemberNames :
          Entry("hotplug_add", LAMBDA s : ubusdev_hotplug_add(s, m),
                {FALSE}, {{}})

HotplugRemove ==
    /\ Live /\ Bridge
    /\ \E m \in MemberNames :
          Entry("hotplug_remove", LAMBDA s : ubusdev_hotplug_remove(s, m),
                {FALSE}, {{}})

\* device_set_present of a member's device: the registry tells its users
RegistryEvent(s, m, event) ==
    LET s0 == [s EXCEPT !.reg[m] = (event = "DEV_EVENT_ADD")] IN
    IF s0.members[m].exists THEN ubusdev_bridge_member_cb(s0, m, event)
    ELSE s0

DevEventAdd ==
    /\ Bridge
    /\ \E m \in MemberNames :
          /\ ~reg[m]
          /\ Entry("dev_add", LAMBDA s : RegistryEvent(s, m, "DEV_EVENT_ADD"),
                   {FALSE}, {{}})

DevEventRemove ==
    /\ Bridge
    /\ \E m \in MemberNames :
          /\ reg[m]
          /\ Entry("dev_remove",
                   LAMBDA s : RegistryEvent(s, m, "DEV_EVENT_REMOVE"),
                   {FALSE}, {{}})

DeviceTimeout ==
    /\ Live /\ ~Bridge /\ udev.retry
    /\ Entry("timeout", ubusdev_timeout_cb, {FALSE}, {{}})

BridgeTimeout ==
    /\ Live /\ Bridge /\ udev.retry
    /\ Entry("timeout", ubusdev_bridge_timeout_cb, {FALSE}, {{}})

MemberTimeout ==
    /\ Live /\ Bridge
    /\ \E m \in MemberNames :
          /\ members[m].exists /\ members[m].retry
          /\ Entry("member_timeout",
                   LAMBDA s : ubusdev_bridge_member_timeout_cb(s, m),
                   {FALSE}, {{}})

\* notifications of the external device handler; a freed wrapper is not
\* entered again
NotifyCreate ==
    /\ utype.subscribed /\ udev.life # "freed"
    /\ Entry("notify_create", ubusdev_handle_create_notification,
             BOOLEAN, {{}})

NotifyReload ==
    /\ utype.subscribed /\ udev.life # "freed"
    /\ Entry("notify_reload", ubusdev_handle_reload_notification,
             {FALSE}, {{}})

NotifyFree ==
    /\ utype.subscribed /\ udev.life # "freed"
    /\ Entry("notify_free", ubusdev_handle_free_notification, {FALSE}, {{}})

NotifyPrepare ==
    /\ utype.subscribed /\ udev.life # "freed"
    /\ Entry("notify_prepare", ubusdev_handle_hotplug_prepare_notification,
             {FALSE}, {{}})

NotifyAdd ==
    /\ utype.subscribed /\ Bridge /\ udev.life # "freed"
    /\ \E m \in MemberNames :
          Entry("notify_add",
                LAMBDA s : ubusdev_handle_hotplug_add_notification(s, m),
                {FALSE}, {{}})

NotifyRemove ==
    /\ utype.subscribed /\ Bridge /\ udev.life # "freed"
    /\ \E m \in MemberNames :
          Entry("notify_remove",
                LAMBDA s : ubusdev_handle_hotplug_remove_notification(s, m),
                {FALSE}, {{}})

\* the external device handler's ubus object goes away
PeerRemove ==
    /\ utype.subscribed
    /\ Commit("peer_remove", ubusdev_ext_handler_remove_cb(Cur(NoEnv)))

\* a ubus.object.add event reaches the registered waiter
ObjectAddOf(path, lf, sf) ==
    /\ utype.obj_wait
    /\ Commit("object_add",
              ubusdev_wait_ev_cb(
                  Cur([NoEnv EXCEPT !.lookup_fail = lf,
                                    !.subscribe_fail = sf]), path))

ObjectAdd ==
    \E path \in ObjectPaths, lf \in BOOLEAN, sf \in BOOLEAN :
        ObjectAddOf(path, lf, sf)

Next ==
    \/ Create \/ Reload \/ Free \/ ConfigInit
    \/ SetStateUp \/ SetStateDown
    \/ HotplugPrepare \/ HotplugAdd \/ HotplugRemove
    \/ DevEventAdd \/ DevEventRemove
    \/ DeviceTimeout \/ BridgeTimeout \/ MemberTimeout
    \/ NotifyCreate \/ NotifyReload \/ NotifyFree \/ NotifyPrepare
    \/ NotifyAdd \/ NotifyRemove
    \/ PeerRemove \/ ObjectAdd

Spec == Init /\ [][Next]_vars

----------------------------------------------------------------------------
(* Properties *)

Entities == {DevName} \cup MemberNames

\* the wrappers that exist: the device, and the members in the bridge's list
Exists(e) == IF e = DevName THEN Live ELSE Live /\ members[e].exists
SyncOf(e) == IF e = DevName THEN udev.sync ELSE members[e].sync
RetryOf(e) == IF e = DevName THEN udev.retry ELSE members[e].retry
RetryCntOf(e) == IF e = DevName THEN udev.retry_cnt ELSE members[e].retry_cnt

PresentMembers == { m \in MemberNames : members[m].exists /\ members[m].present }

\* C1: in every reachable state the bridge's n_present equals the number of
\* members in its list whose present flag is set
NPresentCountsPresentMembers ==
    (Live /\ Bridge) => ubr.n_present = Cardinality(PresentMembers)

\* a bridge with a present member after another member's enable has failed
NPresentAfterEnableFailure ==
    Live /\ Bridge /\ ubr.n_failed > 0 /\ ubr.n_present > 0

\* C2: in every reachable state an active bridge is in none of the states
\* PendingCreate, PendingDisable, PendingFree
ActiveBridgeNotPending ==
    (Live /\ Bridge /\ ubr.active) =>
        udev.sync \notin {STATE_PENDING_CREATE, STATE_PENDING_DISABLE,
                          STATE_PENDING_FREE}

\* C3: in every reachable state a Synchronized device, bridge or member has
\* retry counter 0
SynchronizedHasZeroRetryCnt ==
    \A e \in Entities :
        (Exists(e) /\ SyncOf(e) = STATE_SYNCHRONIZED) => RetryCntOf(e) = 0

\* C4: the operation that armed the device's retry timer is re-invoked by
\* the timer at most UBUSDEV_MAX_RETRY_CNT times, whatever came before it
OperationRetriesBounded ==
    Live => opRetries <= UBUSDEV_MAX_RETRY_CNT

\* C5: in every reachable state every device's, bridge's and member's retry
\* counter is at most UBUSDEV_MAX_RETRY_CNT
RetryCntBounded ==
    \A e \in Entities : Exists(e) => RetryCntOf(e) <= UBUSDEV_MAX_RETRY_CNT

\* C6: in every reachable state a Synchronized device, bridge or member has
\* no retry timer armed
SynchronizedHasNoTimer ==
    \A e \in Entities :
        (Exists(e) /\ SyncOf(e) = STATE_SYNCHRONIZED) => ~RetryOf(e)

\* a device whose timer has expired at least once and that a notification
\* has then brought to Synchronized
SynchronizedAfterTimeout ==
    Live /\ udev.sync = STATE_SYNCHRONIZED /\ udev.retry_cnt > 0

\* the device has left Pending state x and its timer is stopped
Left(x) ==
    /\ udev'.life = "live" => udev'.sync # x
    /\ ~udev'.retry
    /\ DevName \notin dangling'

MemberLeft(m, x) ==
    /\ members'[m].exists => members'[m].sync # x /\ ~members'[m].retry
    /\ m \notin dangling'

\* C7: a notification delivered for an entity in the Pending state it
\* matches makes the entity leave that state and stops its retry timer
MatchingNotificationLeavesPending ==
    [][ /\ (NotifyCreate /\ Live /\ udev.sync = STATE_PENDING_CREATE)
            => Left(STATE_PENDING_CREATE)
        /\ (NotifyReload /\ Live /\ udev.sync = STATE_PENDING_RELOAD)
            => Left(STATE_PENDING_RELOAD)
        /\ (NotifyFree /\ Live /\ udev.sync = STATE_PENDING_FREE)
            => Left(STATE_PENDING_FREE)
        /\ (NotifyFree /\ Live /\ udev.sync = STATE_PENDING_DISABLE)
            => Left(STATE_PENDING_DISABLE)
        /\ (NotifyPrepare /\ Live /\ udev.sync = STATE_PENDING_PREPARE)
            => Left(STATE_PENDING_PREPARE)
        /\ \A m \in MemberNames :
            /\ ( /\ Live /\ members[m].exists
                 /\ members[m].sync = STATE_PENDING_ADD
                 /\ Entry("notify_add",
                       LAMBDA s : ubusdev_handle_hotplug_add_notification(s, m),
                       {FALSE}, {{}}) )
               => MemberLeft(m, STATE_PENDING_ADD)
            /\ ( /\ Live /\ members[m].exists
                 /\ members[m].sync = STATE_PENDING_REMOVE
                 /\ Entry("notify_remove",
                       LAMBDA s : ubusdev_handle_hotplug_remove_notification(s, m),
                       {FALSE}, {{}}) )
               => MemberLeft(m, STATE_PENDING_REMOVE)
      ]_vars

\* C8: after create, create notification, reload, reload notification, free,
\* free notification, with the handler subscribed and every submission
\* accepted, the device has no entry: a lookup finds nothing and no timer of
\* it is armed
RoundTripLeavesNoEntry ==
    rt = "done" => /\ ~device_get(Cur(NoEnv))
                   /\ ~udev.retry
                   /\ DevName \notin dangling

\* C9: a Pending state of a device, bridge or member is never replaced by a
\* different Pending state
PendingNeverOverwritten ==
    [][ /\ ( /\ Live /\ udev'.life = "live"
             /\ udev.sync \in PendingStates /\ udev'.sync \in PendingStates )
           => udev'.sync = udev.sync
        /\ \A m \in MemberNames :
             ( /\ Live /\ udev'.life = "live"
               /\ members[m].exists /\ members'[m].exists
               /\ members[m].sync \in PendingStates
               /\ members'[m].sync \in PendingStates )
             => members'[m].sync = members[m].sync
      ]_vars

\* C10: no request is submitted to the external device handler while the
\* binding is unsubscribed
NoRequestWhileUnsubscribed ==
    \A i \in DOMAIN trace : trace[i].ev = "invoke" => trace[i].sub

Logged(tr, kind) == \E i \in DOMAIN tr : tr[i].ev = kind

SameSyncState(a, b) ==
    a.sync = b.sync /\ a.retry = b.retry /\ a.retry_cnt = b.retry_cnt

\* C11: while the binding stays unsubscribed no device's, bridge's or
\* member's sync state, retry counter or timer changes
FrozenWhileUnsubscribed ==
    [][ (~utype.subscribed /\ ~utype'.subscribed /\ Live /\ udev'.life = "live")
        => /\ SameSyncState(udev', udev)
           /\ \A m \in MemberNames :
                (members[m].exists /\ members'[m].exists)
                => SameSyncState(members'[m], members[m])
      ]_vars

\* C12: while the binding is unsubscribed, create, reload, free, config_init,
\* hotplug_add and hotplug_remove are refused with the warning and change
\* nothing of the device, the bridge or the members; create yields no device
RefusedWhileUnsubscribed ==
    [][ ( /\ ~utype.subscribed
          /\ (Create \/ Reload \/ Free \/ ConfigInit
                \/ HotplugAdd \/ HotplugRemove) )
        => /\ UNCHANGED <<utype, udev, ubr, members, reg, dangling, opRetries>>
           /\ Logged(trace', "not_subscribed")
           /\ ~Logged(trace', "invoke")
      ]_vars

\* an operation on an existing device has just been refused
RefusedOnLiveDevice ==
    Live /\ ~utype.subscribed /\ Logged(trace, "not_subscribed")

AfterPeerRemove ==
    ~utype.subscribed /\ utype.ubus_peer_id = 0 /\ utype.obj_wait

\* C13: after a peer-remove, an object.add event for the handler's object
\* name with lookup and subscribe succeeding makes the binding subscribed; an
\* event for another path leaves the binding as it is; a reload on a
\* subscribed binding is not refused
ResubscribeOnMatchingObjectAdd ==
    [][ /\ (AfterPeerRemove /\ ObjectAddOf(ExtDevHandlerName, FALSE, FALSE))
           => (utype'.subscribed /\ utype'.ubus_peer_id # 0)
        /\ \A path \in ObjectPaths \ {ExtDevHandlerName},
               lf \in BOOLEAN, sf \in BOOLEAN :
             ObjectAddOf(path, lf, sf) => UNCHANGED utype
        /\ \A i \in DOMAIN trace' :
             (trace'[i].ev = "not_subscribed" /\ trace'[i].a = "reload")
             => ~trace'[i].sub
      ]_vars

\* a binding that lost its handler while it had a device, just subscribed again
ResubscribedWithDevice ==
    Live /\ utype.subscribed /\ Logged(trace, "subscribed")

\* C14: a binding that is not subscribed has its object.add waiter
\* registered, also when the lookup failed at bind time
UnsubscribedBindingWaits ==
    ~utype.subscribed => utype.obj_wait

\* C15: in every reachable state no retry timer is armed for a member that
\* has left the member collection or for a bridge that was destroyed
NoTimerOfDestroyedEntity ==
    dangling = {}

\* the notifications of C16 and their handlers
NotificationKeys ==
    {<<"create", DevName>>, <<"reload", DevName>>}
    \cup { <<method, m>> : method \in {"add", "remove"}, m \in MemberNames }

Deliver(s, n) ==
    CASE n[1] = "create" -> ubusdev_handle_create_notification(s)
      [] n[1] = "reload" -> ubusdev_handle_reload_notification(s)
      [] n[1] = "add" -> ubusdev_handle_hotplug_add_notification(s, n[2])
      [] n[1] = "remove" -> ubusdev_handle_hotplug_remove_notification(s, n[2])

StateOf(s) == <<s.utype, s.udev, s.ubr, s.members, s.reg, s.dangling>>

\* the second of two deliveries in a row changes nothing, returns 0, and
\* neither broadcasts nor releases nor submits
SecondDeliveryIdle(n) ==
    \A env \in Probes(BOOLEAN) :
        LET s1 == Deliver(Cur(env), n)
            s2 == Deliver([s1 EXCEPT !.trace = <<>>], n)
        IN  s1.ret = 0 =>
                /\ StateOf(s2) = StateOf(s1)
                /\ s2.ret = 0
                /\ s2.trace = <<>>

\* C16: in every reachable state of a subscribed bridge binding, a create,
\* reload, add or remove notification that is accepted and then delivered
\* a second time leaves the state as the first delivery left it, returns 0
\* and has no side effect; members without a slot are included
NotificationTwiceAsOnce ==
    (utype.subscribed /\ Bridge /\ Live) =>
        \A n \in NotificationKeys : SecondDeliveryIdle(n)

\* C17: on every step that creates a member slot, a slot with hotplug set
\* is Synchronized and a slot from the configured list is PendingAdd
NewSlotSyncByOrigin ==
    [][ \A m \in MemberNames :
            (~members[m].exists /\ members'[m].exists) =>
                members'[m].sync = IF members'[m].hotplug
                                   THEN STATE_SYNCHRONIZED
                                   ELSE STATE_PENDING_ADD ]_vars

\* the retry timer of a bridge expires while its create is unconfirmed and
\* every expiry since the create was issued has re-invoked it
FreshCreateExpiry ==
    /\ Bridge /\ Live
    /\ udev.sync = STATE_PENDING_CREATE /\ udev.retry
    /\ udev.retry_cnt = opRetries
    /\ udev'.retry_cnt = udev.retry_cnt + 1

Accepted(tr) == \A i \in DOMAIN tr : tr[i].ev = "invoke" => tr[i].ok

ReInvoked(tr, method) ==
    \E i \in DOMAIN tr : tr[i].ev = "invoke" /\ tr[i].a = method

\* C18: on every expiry of the retry timer of a bridge whose create, issued
\* with retry_cnt 0, is unconfirmed and whose submissions are all accepted:
\* the first three expiries re-invoke create and re-arm the timer, the fourth
\* logs the give-up without invoking and leaves the timer idle, and the
\* bridge stays PendingCreate
CreateRetriedThreeTimes ==
    [][ (FreshCreateExpiry /\ Accepted(trace')) =>
            /\ udev'.sync = STATE_PENDING_CREATE
            /\ udev.retry_cnt <= UBUSDEV_MAX_RETRY_CNT
            /\ IF udev.retry_cnt < UBUSDEV_MAX_RETRY_CNT
               THEN /\ ReInvoked(trace', "create")
                    /\ ~Logged(trace', "giveup")
                    /\ udev'.retry
               ELSE /\ Logged(trace', "giveup")
                    /\ ~Logged(trace', "invoke")
                    /\ ~udev'.retry ]_vars

\* the fourth expiry has given up on the create
CreateGivenUp ==
    /\ Bridge /\ Live
    /\ udev.sync = STATE_PENDING_CREATE /\ ~udev.retry
    /\ udev.retry_cnt = UBUSDEV_MAX_RETRY_CNT + 1
    /\ opRetries = UBUSDEV_MAX_RETRY_CNT
    /\ Logged(trace, "giveup")

Fresh(s) == [s EXCEPT !.trace = <<>>]

InvokedFor(tr, method, target) ==
    \E i \in DOMAIN tr :
        tr[i].ev = "invoke" /\ tr[i].a = method /\ tr[i].b = target

\* a bridge whose only member m comes from the configured list and whose
\* device has not appeared yet
OneConfiguredMember(m) ==
    /\ Bridge /\ Live /\ utype.subscribed
    /\ udev.sync = STATE_SYNCHRONIZED /\ ~ubr.active /\ ubr.n_present = 0
    /\ ubr.n_failed = 0
    /\ \A o \in MemberNames : members[o].exists <=> o = m
    /\ ~members[m].hotplug /\ ~members[m].present /\ ~reg[m]
    /\ members[m].sync = STATE_PENDING_ADD

\* the three deliveries of the scenario, every answer a yes
AfterDeviceAdd(m) == RegistryEvent(Cur(NoEnv), m, "DEV_EVENT_ADD")
AfterCreateNotification(m) ==
    ubusdev_handle_create_notification(Fresh(AfterDeviceAdd(m)))
AfterAddNotification(m) ==
    ubusdev_handle_hotplug_add_notification(
        Fresh(AfterCreateNotification(m)), m)

DeviceAddIssuesCreate(m) ==
    /\ InvokedFor(AfterDeviceAdd(m).trace, "create", DevName)
    /\ AfterDeviceAdd(m).udev.sync = STATE_PENDING_CREATE

CreateNotificationIssuesAdd(m) ==
    /\ AfterCreateNotification(m).udev.sync = STATE_SYNCHRONIZED
    /\ InvokedFor(AfterCreateNotification(m).trace, "add", m)
    /\ AfterCreateNotification(m).members[m].sync = STATE_PENDING_ADD

AddNotificationSynchronizes(m) ==
    /\ AfterAddNotification(m).members[m].sync = STATE_SYNCHRONIZED
    /\ Logged(AfterAddNotification(m).trace, "broadcast")

\* C19: from every reachable state of a bridge with one configured member,
\* the member's device-add event issues create and leaves the bridge
\* PendingCreate; the create notification then makes the bridge Synchronized
\* and issues add for the member, which is still PendingAdd; the add
\* notification then makes the member Synchronized and broadcasts a
\* topology change
ConfiguredMemberBroughtUp ==
    \A m \in MemberNames :
        OneConfiguredMember(m) =>
            /\ DeviceAddIssuesCreate(m)
            /\ CreateNotificationIssuesAdd(m)
            /\ AddNotificationSynchronizes(m)

\* a bridge configured with empty set and no ifname list
EmptyBridge ==
    /\ Bridge /\ Live /\ utype.subscribed
    /\ ubr.empty /\ ubr.ifnames = NULL /\ ~ubr.ifnames_freed

\* config_init and the create notification after it, every answer a yes
AfterConfigInit == ubusdev_config_init(Cur(NoEnv))
AfterCreateConfirmed == ubusdev_handle_create_notification(Fresh(AfterConfigInit))

\* C20: from every reachable state of a bridge configured with empty set,
\* with the create submission accepted and the device core's set_state(up)
\* succeeding, config_init submits create and leaves the bridge PendingCreate
\* with its timer armed, and the create notification after it leaves the
\* bridge active, present and Synchronized with its timer idle
EmptyBridgeCreatedAtOnce ==
    EmptyBridge =>
        /\ InvokedFor(AfterConfigInit.trace, "create", DevName)
        /\ AfterConfigInit.udev.sync = STATE_PENDING_CREATE
        /\ AfterConfigInit.udev.retry
        /\ AfterCreateConfirmed.ubr.active
        /\ AfterCreateConfirmed.udev.present
        /\ AfterCreateConfirmed.udev.sync = STATE_SYNCHRONIZED
        /\ ~AfterCreateConfirmed.udev.retry

\* the create notification of an empty bridge has just been handled
EmptyBridgeConfirmed ==
    /\ EmptyBridge
    /\ ubr.active /\ udev.present
    /\ udev.sync = STATE_SYNCHRONIZED /\ ~udev.retry
    /\ \E i \in DOMAIN trace :
          trace[i].ev = "set_state" /\ trace[i].a = "up" /\ trace[i].ok

\* C21: on every step in which a present bridge with force_active set
\* loses its last present member, the bridge stays present
ForceActiveStaysPresent ==
    [][ ( /\ Bridge /\ Live /\ udev'.life = "live"
          /\ ubr.force_active /\ ubr'.force_active
          /\ udev.present
          /\ ubr.n_present > 0 /\ ubr'.n_present = 0 )
        => udev'.present ]_vars

\* every submission of the entry refused by the transport
AllRefused == [NoEnv EXCEPT !.refused = AllKeys]

ReloadConfigs == IF Bridge THEN BridgeConfigs ELSE PlainConfigs

\* the reload of config was submitted and refused
ReloadRefused(config) ==
    \E i \in DOMAIN ubusdev_reload(Cur(AllRefused), config).trace :
        LET e == ubusdev_reload(Cur(AllRefused), config).trace[i]
        IN  e.ev = "invoke" /\ e.a = "reload" /\ ~e.ok

\* C22: from every reachable state of a subscribed live entity, a reload
\* whose submission the transport refuses returns no-change and leaves sync,
\* timer, present flag, stored config and, for a bridge, the empty flag and
\* the parsed ifname list as they were
RefusedReloadLeavesState ==
    (Live /\ utype.subscribed) =>
        \A config \in ReloadConfigs :
            ReloadRefused(config) =>
                LET s1 == ubusdev_reload(Cur(AllRefused), config) IN
                /\ s1.change = "NO_CHANGE"
                /\ s1.udev = udev
                /\ s1.ubr.config = ubr.config
                /\ s1.ubr.empty = ubr.empty
                /\ s1.ubr.ifnames = ubr.ifnames
                /\ s1.ubr.ifnames_freed = ubr.ifnames_freed

\* a hotplug_add that created the slot of member m
HotplugAddCreated(m) ==
    /\ ~members[m].exists /\ members'[m].exists /\ members'[m].hotplug
    /\ HotplugAdd

\* an add notification that confirmed member m
AddConfirmed(m) ==
    /\ members[m].exists /\ members[m].sync = STATE_PENDING_ADD
    /\ members'[m].exists /\ members'[m].sync = STATE_SYNCHRONIZED
    /\ Logged(trace', "broadcast")

\* C23: every step of a successful hotplug_add calls device_lock, and every
\* step of the add notification that confirms a member calls device_unlock
HotplugAddLocksRegistry ==
    [][ \A m \in MemberNames :
            /\ HotplugAddCreated(m) => Logged(trace', "device_lock")
            /\ AddConfirmed(m) => Logged(trace', "device_unlock") ]_vars

SlotCount(mem) == Cardinality({ m \in MemberNames : mem[m].exists })

\* the configured list names m and can be read
ListNames(m) ==
    /\ ~ubr.ifnames_freed /\ ubr.ifnames # NULL
    /\ m \in ubr.ifnames[1]

\* C24: from every reachable state of a subscribed bridge and for every
\* member name that has a slot: inserting the name again through
\* hotplug_add or the configured list leaves every slot as it is, config_init
\* with the name in its list keeps the slot, and an add notification keeps
\* the slot's origin and the number of slots
InsertKeepsExistingSlot ==
    (Bridge /\ Live /\ utype.subscribed) =>
        \A m \in MemberNames :
            members[m].exists =>
                /\ ubusdev_hotplug_add(Cur(NoEnv), m).members = members
                /\ ubusdev_bridge_add_member(Cur(NoEnv), m).members = members
                /\ ListNames(m) =>
                      ubusdev_config_init(Cur(NoEnv)).members[m] = members[m]
                /\ LET s1 == ubusdev_handle_hotplug_add_notification(
                                 Cur(NoEnv), m)
                   IN  /\ SlotCount(s1.members) = SlotCount(members)
                       /\ s1.members[m].exists
                       /\ s1.members[m].hotplug = members[m].hotplug

\* a bridge holding a claimed slot from the configured list next to a
\* hotplug slot
ClaimedSlotNextToHotplugSlot ==
    /\ Bridge /\ Live /\ utype.subscribed
    /\ \E m \in MemberNames, o \in MemberNames :
          /\ members[m].exists /\ members[m].claimed /\ ~members[m].hotplug
          /\ ListNames(m)
          /\ members[o].exists /\ members[o].hotplug

SyncStates == {STATE_SYNCHRONIZED} \cup PendingStates

LateKeys ==
    { <<method, DevName>> : method \in {"create", "reload", "free", "prepare"} }
    \cup { <<method, m>> : method \in {"add", "remove"}, m \in MemberNames }

DeliverLate(s, n) ==
    CASE n[1] = "create" -> ubusdev_handle_create_notification(s)
      [] n[1] = "reload" -> ubusdev_handle_reload_notification(s)
      [] n[1] = "free" -> ubusdev_handle_free_notification(s)
      [] n[1] = "prepare" -> ubusdev_handle_hotplug_prepare_notification(s)
      [] n[1] = "add" -> ubusdev_handle_hotplug_add_notification(s, n[2])
      [] n[1] = "remove" -> ubusdev_handle_hotplug_remove_notification(s, n[2])

\* what a handler finds when device_get hands it a wrapper that was freed:
\* the read of sync through the dangling pointer yields any value
FreedReads(env) == { [Cur(env) EXCEPT !.udev.sync = g] : g \in SyncStates }

\* the notification neither writes nor submits
NoOpOn(s0, n) ==
    /\ StateOf(DeliverLate(s0, n)) = StateOf(s0)
    /\ ~Logged(DeliverLate(s0, n).trace, "invoke")

\* C25: in every reachable state in which the entity has been destroyed or
\* does not exist, a create, reload, free, prepare, add or remove
\* notification naming it changes no state and submits nothing
LateNotificationIsNoOp ==
    (utype.subscribed /\ ~Live) =>
        \A n \in LateKeys, env \in Probes(BOOLEAN) :
            IF udev.life = "freed"
            THEN \A s0 \in FreedReads(env) : NoOpOn(s0, n)
            ELSE NoOpOn(Cur(env), n)

AfterFreeNotification == ubusdev_handle_free_notification(Cur(NoEnv))

SameSlots(a, b) == \A m \in MemberNames : a[m].exists = b[m].exists

\* C26: from every reachable state of a subscribed live bridge, a free
\* notification destroys the bridge if it is PendingFree, only clears active
\* and sets Synchronized, keeping config and members, if it is
\* PendingDisable, and has no effect in every other state
FreeNotificationByState ==
    (Bridge /\ Live /\ utype.subscribed) =>
        CASE udev.sync = STATE_PENDING_FREE ->
                AfterFreeNotification.udev.life = "freed"
          [] udev.sync = STATE_PENDING_DISABLE ->
                /\ AfterFreeNotification.udev.life = "live"
                /\ ~AfterFreeNotification.ubr.active
                /\ AfterFreeNotification.udev.sync = STATE_SYNCHRONIZED
                /\ AfterFreeNotification.ubr.config = ubr.config
                /\ SameSlots(AfterFreeNotification.members, members)
          [] OTHER ->
                StateOf(AfterFreeNotification) = StateOf(Cur(NoEnv))

\* the retry timer of member m expires while its accepted add is unconfirmed
\* and the retry counter is below the bound
PendingAddExpiry(m) ==
    /\ Bridge /\ Live /\ udev'.life = "live"
    /\ members[m].exists /\ members[m].sync = STATE_PENDING_ADD
    /\ members[m].present /\ members[m].retry
    /\ members[m].retry_cnt < UBUSDEV_MAX_RETRY_CNT
    /\ members'[m].exists
    /\ members'[m].retry_cnt = members[m].retry_cnt + 1

\* C27: on every expiry of the retry timer of a member whose accepted add is
\* unconfirmed, with the retry counter below the bound and every submission
\* accepted, add is submitted again for the member and its timer is re-armed
PendingAddRetried ==
    [][ \A m \in MemberNames :
            (PendingAddExpiry(m) /\ Accepted(trace')) =>
                /\ InvokedFor(trace', "add", m)
                /\ members'[m].retry ]_vars

AcceptedFor(tr, method, target) ==
    \E i \in DOMAIN tr :
        /\ tr[i].ev = "invoke" /\ tr[i].a = method /\ tr[i].b = target
        /\ tr[i].ok

MemberMethod(sync) ==
    CASE sync = STATE_PENDING_ADD -> "add"
      [] sync = STATE_PENDING_REMOVE -> "remove"
      [] OTHER -> "none"

\* the step moves the device or bridge into a Pending state or arms its timer
DeviceMadePending ==
    /\ udev'.life = "live"
    /\ udev'.sync \in PendingStates /\ udev'.retry
    /\ (udev.life # "live" \/ udev.sync # udev'.sync \/ ~udev.retry)

MemberMadePending(m) ==
    /\ udev'.life = "live" /\ members'[m].exists
    /\ members'[m].sync \in PendingStates /\ members'[m].retry
    /\ (~members[m].exists \/ members[m].sync # members'[m].sync
            \/ ~members[m].retry)

\* C28: on every step that moves a device, bridge or member into a Pending
\* state with its retry timer armed, the matching request was submitted in
\* that step and accepted by the transport
PendingOnlyWhenAccepted ==
    [][ /\ DeviceMadePending =>
              AcceptedFor(trace', TimeoutMethod(udev'.sync, TRUE), DevName)
        /\ \A m \in MemberNames :
              MemberMadePending(m) =>
                  AcceptedFor(trace', MemberMethod(members'[m].sync), m) ]_vars

RefusedFor(tr, target) ==
    \E i \in DOMAIN tr :
        tr[i].ev = "invoke" /\ tr[i].b = target /\ ~tr[i].ok

\* the retry timer of the device or bridge expires below the bound and the
\* transport refuses the re-invocation
DeviceRetryRefused ==
    /\ Live /\ udev'.life = "live"
    /\ udev.retry /\ udev.retry_cnt < UBUSDEV_MAX_RETRY_CNT
    /\ udev'.retry_cnt = udev.retry_cnt + 1
    /\ RefusedFor(trace', DevName)

MemberRetryRefused(m) ==
    /\ Live /\ udev'.life = "live"
    /\ members[m].exists /\ members'[m].exists
    /\ members[m].retry /\ members[m].retry_cnt < UBUSDEV_MAX_RETRY_CNT
    /\ members'[m].retry_cnt = members[m].retry_cnt + 1
    /\ RefusedFor(trace', m)

\* C29: on every expiry of a retry timer below the bound whose re-invocation
\* the transport refuses, the timer of the device, bridge or member is
\* armed again
RefusedRetryRearms ==
    [][ /\ DeviceRetryRefused => udev'.retry
        /\ \A m \in MemberNames :
              MemberRetryRefused(m) => members'[m].retry ]_vars

StoredConfig == IF Bridge THEN ubr.config ELSE udev.config

\* C30: from every reachable state of a subscribed, Synchronized entity with
\* an idle timer, a reload with the configuration that is stored submits
\* nothing and leaves the entity Synchronized with its timer idle
SameConfigReloadIsIdle ==
    (Live /\ utype.subscribed /\ udev.sync = STATE_SYNCHRONIZED /\ ~udev.retry) =>
        \A config \in ReloadConfigs :
            StoredConfig = <<config>> =>
                LET s1 == ubusdev_reload(Cur(NoEnv), config) IN
                /\ ~Logged(s1.trace, "invoke")
                /\ s1.udev.sync = STATE_SYNCHRONIZED
                /\ ~s1.udev.retry

\* C31: on every step, no add is submitted for a member whose slot has
\* hotplug set, and no such member has its timer armed for PendingAdd
HotplugMemberNotAdded ==
    [][ \A m \in MemberNames :
            (udev'.life = "live" /\ members'[m].exists /\ members'[m].hotplug) =>
                /\ ~InvokedFor(trace', "add", m)
                /\ ~(members'[m].sync = STATE_PENDING_ADD /\ members'[m].retry) ]_vars

\* ---- C32 ----
NotTimerStep == udev'.retry_cnt = udev.retry_cnt \/ udev.life # "live"

FirstMemberPresent == ubr.n_present = 0 /\ ubr'.n_present >= 1

ConfigInitIssuesCreate ==
    \A env \in Envs(ubusdev_config_init, {FALSE},
                     IF ubr.ifnames_freed THEN SUBSET MemberNames ELSE {{}}) :
        InvokedFor(ubusdev_config_init(Cur(env)).trace, "create", DevName)

\* C32: constructing a bridge submits nothing; for a bridge without the
\* empty flag a step other than a timer expiry submits create exactly when
\* n_present goes from 0 to at least 1; for a bridge with the empty flag
\* config_init submits create
CreateDeferredToFirstMember ==
    [][ /\ (udev.life = "absent" /\ udev'.life = "live" /\ Bridge) =>
                ~Logged(trace', "invoke")
        /\ (Bridge /\ udev'.life = "live" /\ NotTimerStep /\ ~ubr'.empty) =>
                (InvokedFor(trace', "create", DevName) <=> FirstMemberPresent)
        /\ (Bridge /\ Live /\ utype.subscribed /\ ubr.empty) =>
                ConfigInitIssuesCreate ]_vars

\* ---- C33 ----
SetDownKeys == {<<"remove", m>> : m \in MemberNames} \cup {<<"free", DevName>>}

InvokesOf(tr, method, target) ==
    { i \in DOMAIN tr :
        tr[i].ev = "invoke" /\ tr[i].a = method /\ tr[i].b = target }

\* C33: from every reachable state of a subscribed live bridge, set-down
\* calls the preserved set_state(false) first and once, then submits one
\* remove for each present member and none for the others, every accepted
\* remove leaving its member in PendingRemove with the timer armed, and
\* submits one free for the bridge after every remove, an accepted free
\* leaving the bridge in PendingDisable with the timer armed
SetDownOrder ==
    (Bridge /\ Live /\ utype.subscribed) =>
        \A r \in SUBSET SetDownKeys :
            LET s == ubusdev_bridge_set_down(Cur([NoEnv EXCEPT !.refused = r]))
                tr == s.trace
                frees == InvokesOf(tr, "free", DevName)
            IN  /\ Len(tr) >= 1
                /\ tr[1].ev = "set_state" /\ tr[1].a = "down"
                /\ \A i \in DOMAIN tr : tr[i].ev = "set_state" => i = 1
                /\ \A m \in MemberNames :
                      LET removes == InvokesOf(tr, "remove", m) IN
                      IF members[m].exists /\ members[m].present
                      THEN /\ Cardinality(removes) = 1
                           /\ <<"remove", m>> \notin r =>
                                 /\ s.members[m].sync = STATE_PENDING_REMOVE
                                 /\ s.members[m].retry
                           /\ \A i \in removes : \A j \in frees : i < j
                      ELSE removes = {}
                /\ Cardinality(frees) = 1
                /\ <<"free", DevName>> \notin r =>
                      /\ s.udev.sync = STATE_PENDING_DISABLE
                      /\ s.udev.retry

\* the daemon has set a bridge with a present member down: both submissions
\* were accepted and are pending
SetDownWithPresentMember ==
    /\ Bridge /\ Live
    /\ Len(trace) >= 3
    /\ trace[1].ev = "set_state" /\ trace[1].a = "down"
    /\ udev.sync = STATE_PENDING_DISABLE /\ udev.retry
    /\ \E m \in MemberNames :
          /\ members[m].exists /\ members[m].present
          /\ members[m].sync = STATE_PENDING_REMOVE /\ members[m].retry
          /\ \E i \in InvokesOf(trace, "remove", m) :
                \E j \in InvokesOf(trace, "free", DevName) :
                    i < j /\ trace[i].ok /\ trace[j].ok

\* ---- C34 ----
ClaimTaken(tr, m) ==
    \E i \in DOMAIN tr : tr[i].ev = "claim" /\ tr[i].b = m /\ tr[i].ok

\* the step took a claim for member m in an enable that went on to fail
EnableFailedAfterClaim(m) ==
    /\ udev'.life = "live"
    /\ ~members[m].claimed /\ ClaimTaken(trace', m)
    /\ members'[m].exists /\ ~members'[m].present

\* C34: on every step, a member whose enable took a claim and then failed
\* holds no claim afterwards, and every device_release is made for a member
\* that holds a claim
ClaimsBalanced ==
    [][ /\ \A m \in MemberNames :
              EnableFailedAfterClaim(m) => ~members'[m].claimed
        /\ \A i \in DOMAIN trace' :
              trace'[i].ev = "release" => trace'[i].ok ]_vars

\* ---- C35 ----
UpFails == [NoEnv EXCEPT !.up_fail = TRUE]

\* C35: from every reachable state of a subscribed live bridge in
\* PendingCreate, a create notification in which the preserved
\* set_state(true) fails does not leave the bridge present in PendingDisable
FailedBringUpNotPresent ==
    (Bridge /\ Live /\ utype.subscribed /\ udev.sync = STATE_PENDING_CREATE) =>
        LET s == ubusdev_handle_create_notification(Cur(UpFails)) IN
        ~(s.udev.present /\ s.udev.sync = STATE_PENDING_DISABLE)

\* ---- C36 ----
\* C36: from every reachable state of a subscribed live device, ubusdev_free
\* logs the invocation failure exactly when the transport refused the free
\* submission; an accepted free, which leaves the device in PendingFree with
\* the timer armed, logs none
FreeLogsOnlyRefusal ==
    (~Bridge /\ Live /\ utype.subscribed) =>
        \A env \in {NoEnv, AllRefused} :
            LET s == ubusdev_free(Cur(env)) IN
            /\ Logged(s.trace, "invocation_error") <=>
                    ~AcceptedFor(s.trace, "free", DevName)
            /\ AcceptedFor(s.trace, "free", DevName) =>
                    s.udev.sync = STATE_PENDING_FREE /\ s.udev.retry

====
